---- MODULE Spec2Model ----
(***************************************************************************)
(* Bank-statement extraction, normalisation and structured queries.       *)
(*                                                                         *)
(*   src/src/extraction.py   extract_year, extract_transactions_from_page, *)
(*                           process_single_pdf, extract_all_pdfs          *)
(*   src/src/processing.py   categorize_transaction, process_transactions  *)
(*   src/src/query_engine.py query_structured_data and its formatters      *)
(*                                                                         *)
(* A text line is the sequence of its whitespace-delimited tokens (what    *)
(* line.strip().split() returns); a token is a string of a finite          *)
(* alphabet, and the string predicates of the code (startswith, isdigit,   *)
(* isalpha, the regular expressions, strptime) are tabulated over that     *)
(* alphabet with the values Python gives them.                             *)
(***************************************************************************)
EXTENDS Integers, Sequences, FiniteSets, TLC

VARIABLES
    \* ---- extract_transactions_from_page, one loop iteration per step
    pc_page,          \* "loop" | "returned" | "raised"
    page_year,        \* its extracted_year argument
    page_tx,          \* its local list `transactions`
    prev_tx,          \* page_tx before the last iteration (history)
    line,             \* the loop variable: the line of the last iteration
    n_lines,          \* lines consumed so far
    start_skipped,    \* history: a start line was read, and not recorded, after the last record
    \* ---- extract_all_pdfs / process_single_pdf / process_transactions
    pc,               \* position of the batch
    pdf_files,        \* number of *.pdf entries os.listdir returned
    f,                \* index of the file being processed (0-based)
    p,                \* pages of the current file consumed so far
    extracted_year,   \* process_single_pdf: the carried year
    transactions,     \* process_single_pdf: its local list
    all_transactions, \* extract_all_pdfs: the consolidated table
    ledger,           \* result of process_transactions
    ledger2,          \* result of process_transactions on its own output
    raw_df,           \* rag_system: the table object passed to process_transactions
    page_years,       \* history: year each page of the current file was classified with
    page_tokens,      \* history: year token each of those pages shows (or None)
    page_lines,       \* history: the lines of the page read last
    tx_before,        \* history: the list of the file before that page was read
    file_log,         \* history: per file, whether it succeeded and the rows it had built
    expected,         \* history: the tables the succeeded files returned, in order
    yearless,         \* history: rows contributed by files that resolved no year
    \* ---- categorize_transaction
    pc_cat,           \* "call" | "returned"
    description,      \* its argument
    categories,       \* the CATEGORIES mapping of the configuration
    label,            \* the category it returned
    \* ---- query_structured_data
    pc_query,         \* "ready" | "answered" | "raised"
    df,               \* the table the tool is given (self.transactions_df)
    df0,              \* history: that table as it was when the agent was set up
    asked,            \* history: questions put to the tool so far
    query,            \* the question
    today,            \* datetime.now()
    time_period,      \* its local of that name
    category,         \* its local of that name
    filtered_df,      \* its local of that name, as left by the three filters
    answer,           \* the value it returned
    \* ---- BankStatementRAG
    pc_rag,           \* position in __init__ / _initialize
    runs,             \* history: constructions so far
    force_refresh,    \* the argument of the constructor
    pdf_data,         \* what the PDF files of DATA_DIR give when extracted and processed
    csv_file,         \* the file TRANSACTIONS_CSV
    index_file,       \* the file index.faiss of VECTORS_DIR
    needs_extraction, \* the local of that name
    needs_vectors,    \* the local of that name
    transactions_df,  \* self.transactions_df
    vectorstore,      \* self.vectorstore
    agent             \* self.agent is set

pageVars == <<pc_page, page_year, page_tx, prev_tx, line, n_lines, start_skipped>>
batchVars == <<pc, pdf_files, f, p, extracted_year, transactions, all_transactions,
               ledger, ledger2, raw_df, page_years, page_tokens, page_lines, tx_before,
               file_log, expected, yearless>>
catVars == <<pc_cat, description, categories, label>>
queryVars == <<pc_query, df, df0, asked, query, today, time_period, category,
               filtered_df, answer>>
ragVars == <<pc_rag, runs, force_refresh, pdf_data, csv_file, index_file,
             needs_extraction, needs_vectors, transactions_df, vectorstore, agent>>
otherVars == <<catVars, queryVars, ragVars>>
vars == <<pageVars, batchVars, otherVars>>

None == "None"

-----------------------------------------------------------------------------
(* Bounds of the model *)

MaxLines == 3    \* lines of one page
MaxPages == 2    \* pages of one document
MaxFiles == 2    \* PDF files of one directory
MaxRows == 3     \* rows of the consolidated table
MaxLedgerRows == 2  \* rows of the raw table behind a ledger that is queried
MaxQuestions == 2  \* questions put to one ledger
MaxStatements == 2 \* distinct non-empty ledgers the PDF files can give
MaxRuns == 3       \* constructions of BankStatementRAG

-----------------------------------------------------------------------------
(* Tokens *)

\* The months list of extract_transactions_from_page.
months == {"Jan", "Feb", "Mar", "Apr", "May", "Jun",
           "Jul", "Aug", "Sep", "Oct", "Nov", "Dec"}

DEPOSIT_TRIGGERS == {"Deposit", "MB-Transferfrom"}

\* Month abbreviation a token starts with, "" when it starts with none
\* (token.startswith(month)).
MonthPrefix(tok) ==
    CASE tok \in {"Mar02", "Mar", "March"} -> "Mar"
      [] tok \in {"Apr15"}                 -> "Apr"
      [] tok \in {"Feb30"}                 -> "Feb"
      [] tok \in {"May"}                   -> "May"
      [] OTHER                             -> ""

\* str.isdigit(): non-empty, decimal digits only.
IsDigit(tok) == tok \in {"2023", "2024", "02"}

\* str.isalpha(): non-empty, letters only.
IsAlpha(tok) ==
    tok \in {"Mar", "March", "May", "Deposit", "POSGroceryMart", "Payroll",
             "DEBIT", "Statement", "statement", "Opening", "Balance"}

\* re.match(r'^\d+(\.\d{1,2})?$', tok)
IsDecimal(tok) == tok \in {"2023", "2024", "02", "45.67", "500.00", "1000.00", "0.00"}

\* re.search(r'\b(20\d{2})\b', tok): the year a token shows, None when none.
YearIn(tok) ==
    CASE tok = "2023" -> "2023"
      [] tok = "2024" -> "2024"
      [] OTHER        -> None

-----------------------------------------------------------------------------
(* Dates *)

NaT == [year |-> 0, mon |-> 0, day |-> 0]

IsLeap(y) == (y % 4 = 0 /\ y % 100 # 0) \/ y % 400 = 0

DaysInMonth(y, m) ==
    CASE m \in {1, 3, 5, 7, 8, 10, 12} -> 31
      [] m \in {4, 6, 9, 11}           -> 30
      [] OTHER                         -> IF IsLeap(y) THEN 29 ELSE 28

YearNumber(y) == CASE y = "2023" -> 2023 [] y = "2024" -> 2024 [] OTHER -> 0

\* What the directives %b%d of the format '%b%d%Y' match in front of the four
\* digits of the year: <<month, day>>, <<0, 0>> when the token is not a month
\* abbreviation directly followed by a day number.
MonDay(tok) ==
    CASE tok = "Mar02" -> <<3, 2>>
      [] tok = "Apr15" -> <<4, 15>>
      [] tok = "Feb30" -> <<2, 30>>
      [] OTHER         -> <<0, 0>>

\* pd.to_datetime(f"{tok}{year}", format='%b%d%Y'): the date, NaT standing for
\* the ValueError it raises (no match, or a day the month does not have).
Strptime(tok, year) ==
    LET md == MonDay(tok)
        y  == YearNumber(year)
    IN  IF md[1] = 0 \/ y = 0 \/ md[2] > DaysInMonth(y, md[1])
        THEN NaT
        ELSE [year |-> y, mon |-> md[1], day |-> md[2]]

MonthAbbr(m) ==
    CASE m = 1 -> "Jan" [] m = 2 -> "Feb" [] m = 3 -> "Mar" [] m = 4 -> "Apr"
      [] m = 5 -> "May" [] m = 6 -> "Jun" [] m = 7 -> "Jul" [] m = 8 -> "Aug"
      [] m = 9 -> "Sep" [] m = 10 -> "Oct" [] m = 11 -> "Nov" [] OTHER -> "Dec"

Digit(k) ==
    CASE k = 0 -> "0" [] k = 1 -> "1" [] k = 2 -> "2" [] k = 3 -> "3" [] k = 4 -> "4"
      [] k = 5 -> "5" [] k = 6 -> "6" [] k = 7 -> "7" [] k = 8 -> "8" [] OTHER -> "9"

\* .strftime('%b %d, %Y')
Strftime(d) ==
    MonthAbbr(d.mon) \o " " \o Digit(d.day \div 10) \o Digit(d.day % 10) \o ", "
        \o Digit(d.year \div 1000) \o Digit((d.year \div 100) % 10)
        \o Digit((d.year \div 10) % 10) \o Digit(d.year % 10)

-----------------------------------------------------------------------------
(* Word segmentation *)

\* wordninja.split(tok): the token cut at every character that is neither a
\* letter, a digit nor an apostrophe, each piece cut into dictionary words.
WordsOf(tok) ==
    CASE tok = "POSGroceryMart"  -> <<"POS", "Grocery", "Mart">>
      [] tok = "MB-Transferfrom" -> <<"MB", "Transfer", "from">>
      [] tok = "Mar02"           -> <<"Mar", "02">>
      [] tok = "Apr15"           -> <<"Apr", "15">>
      [] tok = "Feb30"           -> <<"Feb", "30">>
      [] tok = "45.67"           -> <<"45", "67">>
      [] tok = "500.00"          -> <<"500", "00">>
      [] tok = "1000.00"         -> <<"1000", "00">>
      [] tok = "0.00"            -> <<"0", "00">>
      [] tok = "1,234.56"        -> <<"1", "234", "56">>
      [] tok = "-5.00"           -> <<"5", "00">>
      [] OTHER                   -> <<tok>>

RECURSIVE SplitWords(_)
SplitWords(toks) ==
    IF toks = <<>> THEN <<>> ELSE WordsOf(Head(toks)) \o SplitWords(Tail(toks))

\* split_concatenated_text(" ".join(toks)).  A string is kept as the sequence
\* of the pieces its single spaces separate (str.split(' ')), so the empty
\* string is <<"">> and s + ' ' + t is the concatenation of the two sequences.
split_concatenated_text(toks) ==
    IF SplitWords(toks) = <<>> THEN <<"">> ELSE SplitWords(toks)

-----------------------------------------------------------------------------
(* extract_transactions_from_page: one iteration of `for line in lines` *)

Last(s) == s[Len(s)]
Front(s) == SubSeq(s, 1, Len(s) - 1)

\* any(line.startswith(month) for month in months), line being stripped
StartsWithMonth(ln) == ln # <<>> /\ MonthPrefix(ln[1]) \in months

\* Lines 40-42: parts = line.split(), less a trailing non-numeric tag.
Parts(ln) ==
    IF ~IsDigit(Last(ln)) /\ IsAlpha(Last(ln)) THEN Front(ln) ELSE ln

\* HasTrigger looking only at the token next to the amount.
HasTriggerNextToAmount(parts) ==
    Len(parts) >= 3 /\ parts[Len(parts) - 2] \in DEPOSIT_TRIGGERS

\* Line 53: any(tag in parts for tag in DEPOSIT_TRIGGERS)
HasTrigger(parts) == \E i \in 1..Len(parts) : parts[i] \in DEPOSIT_TRIGGERS

\* Amounts with the deposit branch forgetting `withdrawal = None`.
AmountsWithdrawalKept(parts) ==
    [withdrawal |-> parts[Len(parts) - 1],
     deposit    |-> IF HasTrigger(parts) THEN parts[Len(parts) - 1] ELSE None]

\* Amounts with the amount written to the deposit side of every record.
AmountsDepositAlways(parts) ==
    [withdrawal |-> IF HasTrigger(parts) THEN None ELSE parts[Len(parts) - 1],
     deposit    |-> parts[Len(parts) - 1]]

\* Lines 53-58: the <<withdrawal, deposit>> pair of a start line.
Amounts(parts) ==
    IF HasTrigger(parts)
    THEN [withdrawal |-> None, deposit |-> parts[Len(parts) - 1]]
    ELSE [withdrawal |-> parts[Len(parts) - 1], deposit |-> None]

RECURSIVE NonDecimal(_)
NonDecimal(toks) ==
    IF toks = <<>> THEN <<>>
    ELSE IF IsDecimal(Head(toks)) THEN NonDecimal(Tail(toks))
         ELSE <<Head(toks)>> \o NonDecimal(Tail(toks))

\* Lines 60-61: parts[1:-2] without the decimal numbers, segmented.
Description(parts) ==
    split_concatenated_text(NonDecimal(SubSeq(parts, 2, Len(parts) - 2)))

\* DateField without the strftime of line 48.
DateFieldUnformatted(parts, year) ==
    IF year = None THEN parts[1]
    ELSE IF Strptime(parts[1], year) = NaT THEN "ValueError"
         ELSE parts[1] \o year

\* Lines 44-50: the date field; "ValueError" when the year is known and the
\* first token with the year appended does not parse.
DateField(parts, year) ==
    IF year = None THEN parts[1]
    ELSE IF Strptime(parts[1], year) = NaT THEN "ValueError"
         ELSE Strftime(Strptime(parts[1], year))

\* Lines 39-62, a transaction-start line.  parts[0] on an empty list and
\* parts[-2] on a list of one raise IndexError.
StartLine(tx, ln, year) ==
    LET parts == Parts(ln) IN
    IF parts = <<>> THEN [exc |-> "IndexError", tx |-> tx]
    ELSE IF DateField(parts, year) = "ValueError" THEN [exc |-> "", tx |-> tx]
    ELSE IF Len(parts) < 2 THEN [exc |-> "IndexError", tx |-> tx]
    ELSE [exc |-> "",
          tx  |-> Append(tx, [date        |-> DateField(parts, year),
                              description |-> Description(parts),
                              withdrawal  |-> Amounts(parts).withdrawal,
                              deposit     |-> Amounts(parts).deposit,
                              balance     |-> Last(parts)])]

\* Lines 63-64: any other line extends the description of the last record.
Continuation(tx, ln) ==
    IF tx = <<>> THEN tx
    ELSE [tx EXCEPT ![Len(tx)].description = @ \o split_concatenated_text(ln)]

\* Lines 37-64: the body of the loop for one line.
ProcessLine(tx, ln, year) ==
    IF StartsWithMonth(ln) THEN StartLine(tx, ln, year)
    ELSE [exc |-> "", tx |-> Continuation(tx, ln)]

\* Lines 34-66: the whole function; exc names the exception that escapes.
RECURSIVE ExtractFrom(_, _, _)
ExtractFrom(tx, lines, year) ==
    IF lines = <<>> THEN [exc |-> "", tx |-> tx]
    ELSE LET r == ProcessLine(tx, Head(lines), year) IN
         IF r.exc # "" THEN r ELSE ExtractFrom(r.tx, Tail(lines), year)

extract_transactions_from_page(lines, year) == ExtractFrom(<<>>, lines, year)

\* Lines 23-27: the first year a line shows, None when no line shows one.
RECURSIVE YearOfLine(_)
YearOfLine(ln) ==
    IF ln = <<>> THEN None
    ELSE IF YearIn(Head(ln)) # None THEN YearIn(Head(ln)) ELSE YearOfLine(Tail(ln))

RECURSIVE extract_year(_)
extract_year(lines) ==
    IF lines = <<>> THEN None
    ELSE IF YearOfLine(Head(lines)) # None THEN YearOfLine(Head(lines))
         ELSE extract_year(Tail(lines))

-----------------------------------------------------------------------------
(* Inputs *)

\* Text lines, each the token sequence line.strip().split() gives.
Lines ==
    { <<>>,                                                      \* blank
      <<"Statement", "2024">>,                                   \* header showing a year
      <<"POSGroceryMart">>,                                      \* wrapped description
      <<"Mar02", "POSGroceryMart", "45.67", "1000.00">>,         \* withdrawal
      <<"Mar", "02", "POSGroceryMart", "45.67", "1000.00">>,     \* month and day apart
      <<"Apr15", "Deposit", "Payroll", "500.00", "1000.00">>,    \* trigger mid-line
      <<"Apr15", "Payroll", "Deposit", "500.00", "1000.00">>,    \* trigger next to the amount
      <<"Apr15", "MB-Transferfrom", "500.00", "1000.00">>,       \* the other trigger
      <<"Mar02", "Payroll", "500.00", "1000.00", "Deposit">>,    \* trigger as trailing tag
      <<"Mar02", "Payroll", "500.00", "1000.00", "MB-Transferfrom">>,
      <<"Mar02", "POSGroceryMart", "45.67", "1000.00", "DEBIT">>,\* trailing tag
      <<"Feb30", "Payroll", "45.67", "1000.00">>,                \* no such day
      <<"Feb30">>,
      <<"May">>,                                                 \* a month word alone
      <<"March", "statement">>,
      <<"Mar02">>,                                               \* a date alone
      <<"Mar02", "1000.00">>,                                    \* no amount
      <<"Mar02", "Opening", "Balance", "1000.00">>,              \* amount is a word
      <<"Mar02", "Payroll", "1,234.56", "1000.00">>,             \* thousands separator
      <<"Mar02", "Payroll", "-5.00", "1000.00">> }               \* signed amount

PageYears == {None, "2024"}

-----------------------------------------------------------------------------
(* Specification of extract_transactions_from_page *)

\* No answer yet.
NoAnswer == [kind |-> ""]

CatIdle ==
    /\ pc_cat = "idle" /\ description = <<>> /\ categories = <<>> /\ label = ""

QueryIdle ==
    /\ pc_query = "idle" /\ df = <<>> /\ df0 = <<>> /\ asked = 0 /\ query = <<>>
    /\ today = [date |-> NaT, midnight |-> TRUE]
    /\ time_period = "" /\ category = None /\ filtered_df = <<>>
    /\ answer = NoAnswer

\* A file that is not there, an attribute that is None.
Absent == [here |-> FALSE, ledger |-> 0]

\* A file or an object made from ledger k; ledger 0 is the table without rows.
Holding(k) == [here |-> TRUE, ledger |-> k]

RagIdle ==
    /\ pc_rag = "idle" /\ runs = 0 /\ force_refresh = FALSE
    /\ pdf_data = Absent /\ csv_file = Absent /\ index_file = Absent
    /\ needs_extraction = FALSE /\ needs_vectors = FALSE
    /\ transactions_df = Absent /\ vectorstore = Absent /\ agent = FALSE

BatchIdle ==
    /\ pc = "idle" /\ pdf_files = 0 /\ f = 0 /\ p = 0
    /\ extracted_year = None /\ transactions = <<>>
    /\ all_transactions = [columns |-> FALSE, rows |-> <<>>]
    /\ ledger = <<>> /\ ledger2 = <<>>
    /\ raw_df = [columns |-> FALSE, rows |-> <<>>]
    /\ page_years = <<>> /\ page_tokens = <<>> /\ page_lines = <<>>
    /\ tx_before = <<>>
    /\ file_log = <<>> /\ expected = <<>>
    /\ yearless = 0

InitPage ==
    /\ pc_page = "loop"
    /\ page_year \in PageYears
    /\ page_tx = <<>> /\ prev_tx = <<>>
    /\ line = <<>> /\ n_lines = 0 /\ start_skipped = FALSE
    /\ BatchIdle /\ CatIdle /\ QueryIdle /\ RagIdle

\* The loop takes the next line of the page.
ReadLine ==
    /\ pc_page = "loop" /\ n_lines < MaxLines
    /\ \E ln \in Lines :
         LET r == ProcessLine(page_tx, ln, page_year) IN
         /\ line' = ln
         /\ n_lines' = n_lines + 1
         /\ prev_tx' = page_tx
         /\ page_tx' = r.tx
         /\ pc_page' = IF r.exc # "" THEN "raised" ELSE "loop"
         /\ start_skipped' = IF StartsWithMonth(ln) THEN Len(r.tx) = Len(page_tx)
                              ELSE start_skipped
    /\ UNCHANGED <<page_year, batchVars, otherVars>>

\* The page has no more lines: return transactions.
ReturnPage ==
    /\ pc_page = "loop"
    /\ pc_page' = "returned"
    /\ UNCHANGED <<page_year, page_tx, prev_tx, line, n_lines, start_skipped, batchVars,
                   otherVars>>

NextPage == ReadLine \/ ReturnPage

SpecPage == InitPage /\ [][NextPage]_vars

-----------------------------------------------------------------------------
(* process_transactions *)

\* Cells of a table.  A Date cell holds a string or a timestamp, an amount
\* cell a string, nothing (None), NaN or a number of cents.
StrCell(x)  == [k |-> "str", s |-> x, n |-> 0, d |-> NaT]
NoneCell    == [k |-> "none", s |-> "", n |-> 0, d |-> NaT]
NaNCell     == [k |-> "nan", s |-> "", n |-> 0, d |-> NaT]
NumCell(c)  == [k |-> "num", s |-> "", n |-> c, d |-> NaT]
TsCell(t)   == [k |-> "ts", s |-> "", n |-> 0, d |-> t]
Cell(x)     == IF x = None THEN NoneCell ELSE StrCell(x)

\* pd.DataFrame(transactions, columns=columns): one row per record.
DataFrame(tx) ==
    [i \in 1..Len(tx) |->
        [Date        |-> Cell(tx[i].date),
         Description |-> tx[i].description,
         Withdrawals |-> Cell(tx[i].withdrawal),
         Deposits    |-> Cell(tx[i].deposit),
         Balance     |-> Cell(tx[i].balance)]]

\* Dates the strings of the table can spell.
DateTokens == {"Mar02", "Apr15", "Feb30", "Mar", "March", "May"}
StatementYears == {"2023", "2024"}

\* Year dateutil is given for a string that shows none (datetime(1, 1, 1)),
\* and the first year a nanosecond timestamp can hold in full.
DefaultYear == 1
MinTimestampYear == 1678

\* Month and day dateutil reads from a string with no year: <<0, 0>> when it
\* reads none; a month alone is the first of that month.
DateutilMonDay(str) ==
    CASE str = "Mar02" -> <<3, 2>>
      [] str = "Apr15" -> <<4, 15>>
      [] str = "Feb30" -> <<2, 30>>
      [] str \in {"Mar", "March"} -> <<3, 1>>
      [] str = "May"   -> <<5, 1>>
      [] OTHER         -> <<0, 0>>

\* ParseYearless keeping a date outside the timestamp range.
ParseYearlessUnbounded(str) ==
    LET md == DateutilMonDay(str) IN
    IF md[1] = 0 \/ md[2] > DaysInMonth(DefaultYear, md[1]) THEN NaT
    ELSE [year |-> DefaultYear, mon |-> md[1], day |-> md[2]]

\* The date a string without a year parses to, NaT when it is no date of the
\* calendar or lies outside the timestamp range (errors='coerce').
ParseYearless(str) ==
    LET md == DateutilMonDay(str) IN
    IF md[1] = 0 \/ md[2] > DaysInMonth(DefaultYear, md[1]) THEN NaT
    ELSE IF DefaultYear < MinTimestampYear THEN NaT
    ELSE [year |-> DefaultYear, mon |-> md[1], day |-> md[2]]

\* Line 25, one cell: pd.to_datetime(cell, errors='coerce').
ToDatetime(c) ==
    IF c.k = "ts" THEN c
    ELSE IF c.k # "str" THEN TsCell(NaT)
    ELSE IF \E t \in DateTokens, y \in StatementYears :
               Strptime(t, y) # NaT /\ Strftime(Strptime(t, y)) = c.s
         THEN LET ty == CHOOSE ty \in DateTokens \X StatementYears :
                            /\ Strptime(ty[1], ty[2]) # NaT
                            /\ Strftime(Strptime(ty[1], ty[2])) = c.s
              IN  TsCell(Strptime(ty[1], ty[2]))
         ELSE TsCell(ParseYearless(c.s))

\* The strings pd.to_numeric reads as a number: digits with an optional
\* fraction and an optional sign, no thousands separator.
IsNumeric(str) ==
    str \in {"45.67", "500.00", "1000.00", "0.00", "2023", "2024", "02", "-5.00"}

\* The number such a string spells, in cents.
Cents(str) ==
    CASE str = "45.67"   -> 4567
      [] str = "500.00"  -> 50000
      [] str = "1000.00" -> 100000
      [] str = "0.00"    -> 0
      [] str = "2023"    -> 202300
      [] str = "2024"    -> 202400
      [] str = "02"      -> 200
      [] str = "-5.00"   -> -500
      [] OTHER           -> 0

\* pd.to_numeric(cell, errors='coerce')
ToNumeric(c) ==
    IF c.k \in {"num", "nan"} THEN c
    ELSE IF c.k = "str" /\ IsNumeric(c.s) THEN NumCell(Cents(c.s))
    ELSE NaNCell

\* .fillna(0)
Fillna0(c) == IF c.k = "nan" THEN NumCell(0) ELSE c

\* Lines 28-30: an amount column.
CleanNumeric(c) == Fillna0(ToNumeric(c))

\* Line 34
TypeOf(deposits) == IF deposits.n > 0 THEN "Deposit" ELSE "Withdrawal"

\* date.toordinal() and date.weekday()
RECURSIVE DaysBeforeMonth(_, _)
DaysBeforeMonth(y, m) ==
    IF m <= 1 THEN 0 ELSE DaysBeforeMonth(y, m - 1) + DaysInMonth(y, m - 1)

Ordinal(t) ==
    LET y == t.year - 1 IN
    365 * y + (y \div 4) - (y \div 100) + (y \div 400) + DaysBeforeMonth(t.year, t.mon) + t.day

Weekday(t) == (Ordinal(t) + 6) % 7

day_name(t) ==
    CASE Weekday(t) = 0 -> "Monday"   [] Weekday(t) = 1 -> "Tuesday"
      [] Weekday(t) = 2 -> "Wednesday" [] Weekday(t) = 3 -> "Thursday"
      [] Weekday(t) = 4 -> "Friday"   [] Weekday(t) = 5 -> "Saturday"
      [] OTHER          -> "Sunday"

\* CATEGORIES of the configuration file, in declared order.
CATEGORIES ==
    << [category |-> "groceries", keywords |-> {"grocery", "groceries", "mart"}],
       [category |-> "income",    keywords |-> {"payroll", "deposit"}] >>

\* word.lower()
Lower(w) ==
    CASE w = "POS" -> "pos" [] w = "Grocery" -> "grocery" [] w = "Mart" -> "mart"
      [] w = "Payroll" -> "payroll" [] w = "Deposit" -> "deposit"
      [] w = "Statement" -> "statement" [] w = "Opening" -> "opening"
      [] w = "Balance" -> "balance" [] w = "Transfer" -> "transfer"
      [] w = "MB" -> "mb" [] w = "DEBIT" -> "debit" [] w = "Mar" -> "mar"
      [] w = "March" -> "march" [] w = "May" -> "may" [] w = "Apr" -> "apr"
      [] w = "Feb" -> "feb" [] w = "WALMART" -> "walmart"
      [] w = "Supermarket" -> "supermarket" [] w = "How" -> "how"
      [] w = "I" -> "i" [] w = "What's" -> "what's" [] w = "Last" -> "last"
      [] w = "Total" -> "total"
      [] OTHER -> w

\* text.lower(), the text being the sequence of the pieces between its spaces
LowerAll(text) == [i \in 1..Len(text) |-> Lower(text[i])]

\* Python's `needle in word` for two strings without a space, where the
\* needle is not the whole word.  Only pairs of the alphabet are listed;
\* 'groceries' does not contain 'grocery', nor 'spend' or 'spending' 'spent'.
ProperInfix ==
    { <<"mart", "walmart">>, <<"mart", "supermarket">>, <<"market", "supermarket">>,
      <<"count", "account">>, <<"sum", "summary">>, <<"week", "weekend">>,
      <<"most", "almost">>, <<"deposit", "deposits">> }

\* `needle in word`
Infix(needle, word) == needle = word \/ <<needle, word>> \in ProperInfix

\* word.startswith(needle) and word.endswith(needle)
Prefix(needle, word) ==
    needle = word \/ <<needle, word>> \in {<<"week", "weekend">>, <<"sum", "summary">>,
                                           <<"deposit", "deposits">>}
Suffix(needle, word) ==
    needle = word \/ <<needle, word>> \in {<<"mart", "walmart">>, <<"most", "almost">>,
                                           <<"count", "account">>,
                                           <<"market", "supermarket">>}

\* `phrase in text` for a phrase and a text given as their pieces: the phrase
\* lies within one piece, or ends one piece, fills the next ones and begins
\* another.
PhraseIn(phrase, text) ==
    \E i \in 1..(Len(text) - Len(phrase) + 1) :
        IF Len(phrase) = 1 THEN Infix(phrase[1], text[i])
        ELSE /\ Suffix(phrase[1], text[i])
             /\ Prefix(phrase[Len(phrase)], text[i + Len(phrase) - 1])
             /\ \A j \in 2..(Len(phrase) - 1) : text[i + j - 1] = phrase[j]

\* Line 17: keyword in desc_lower.  The keyword is taken as configured.
KeywordIn(keyword, desc_lower) == PhraseIn(<<keyword>>, desc_lower)

\* for category, keywords in categories.items(): the first category, in
\* declared order, one of whose keywords is in the lowered text; `none` when
\* the loop ends without one.
RECURSIVE FirstMatching(_, _, _)
FirstMatching(cats, text_lower, none) ==
    IF cats = <<>> THEN none
    ELSE IF \E kw \in Head(cats).keywords : KeywordIn(kw, text_lower)
         THEN Head(cats).category
         ELSE FirstMatching(Tail(cats), text_lower, none)

\* Lines 15-19
FirstCategory(cats, desc_lower) == FirstMatching(cats, desc_lower, "other")

\* A missing description (NaN): a description that is text has a piece.
NaN == <<>>

\* Lines 9-19 under a given mapping.
Categorize(cats, desc) ==
    IF desc = NaN THEN "other" ELSE FirstCategory(cats, LowerAll(desc))

\* Lines 7-19
categorize_transaction(desc) == Categorize(CATEGORIES, desc)

\* Lines 25-41 for one row: the typed and enriched row.
Enrich(r) ==
    LET date == ToDatetime(r.Date)
        w    == CleanNumeric(r.Withdrawals)
        dep  == CleanNumeric(r.Deposits)
    IN  [Date        |-> date,
         Description |-> r.Description,
         Withdrawals |-> w,
         Deposits    |-> dep,
         Balance     |-> CleanNumeric(r.Balance),
         Amount      |-> w.n + dep.n,
         Type        |-> TypeOf(dep),
         Month       |-> <<date.d.year, date.d.mon>>,
         Week        |-> IF date.d = NaT THEN 0 ELSE Ordinal(date.d) - Weekday(date.d),
         Year        |-> date.d.year,
         DayOfWeek   |-> IF date.d = NaT THEN "NaN" ELSE day_name(date.d),
         Category    |-> categorize_transaction(r.Description)]

\* Lines 25-41: the column assignments df[...] = ..., made on the table the
\* caller passed: every row of it is typed and enriched, none is dropped or
\* moved.
AssignColumns(rows) == [i \in 1..Len(rows) |-> Enrich(rows[i])]

\* DropNaT dropping nothing.
KeepNaT(rows) == rows

\* Line 44: df.dropna(subset=['Date'])
RECURSIVE DropNaT(_)
DropNaT(rows) ==
    IF rows = <<>> THEN <<>>
    ELSE IF Head(rows).Date.d = NaT THEN DropNaT(Tail(rows))
         ELSE <<Head(rows)>> \o DropNaT(Tail(rows))

RemoveAt(rows, i) == SubSeq(rows, 1, i - 1) \o SubSeq(rows, i + 1, Len(rows))

\* Line 47: sort_values('Date', ascending=False) sorts with the default
\* kind='quicksort', which keeps no order among rows of equal Date: every
\* arrangement of the rows that is descending by Date is a possible result.
RECURSIVE SortValues(_)
SortValues(rows) ==
    IF rows = <<>> THEN {<<>>}
    ELSE UNION { { <<rows[i]>> \o rest : rest \in SortValues(RemoveAt(rows, i)) } :
                 i \in { i \in 1..Len(rows) :
                           \A j \in 1..Len(rows) :
                               Ordinal(rows[i].Date.d) >= Ordinal(rows[j].Date.d) } }

\* Lines 22-49 on a table that has the columns and at least one row: the set
\* of tables it can return.
process_transactions(rows) == SortValues(DropNaT(AssignColumns(rows)))

\* Lines 25 and 34: df['Date'] on a table without columns raises KeyError;
\* on a table without rows df.apply(..., axis=1) gives back a DataFrame, and
\* setting the column 'Type' to it raises ValueError.
ProcessRaises(table) ==
    IF ~table.columns THEN "KeyError"
    ELSE IF table.rows = <<>> THEN "ValueError"
    ELSE ""

-----------------------------------------------------------------------------
(* Specification of extract_all_pdfs followed by process_transactions *)

\* page.extract_text().split('\n') of the pages that have text.
PageTexts ==
    { << <<"Statement", "2024">>,
         <<"Mar02", "POSGroceryMart", "45.67", "1000.00">> >>,      \* shows a year
      << <<"Statement", "2023">>,
         <<"Apr15", "Deposit", "Payroll", "500.00", "1000.00">> >>, \* shows another
      << <<"Mar02", "POSGroceryMart", "45.67", "1000.00">> >>,      \* shows no year
      << <<"POSGroceryMart">>,                                      \* a continuation line first
         <<"Apr15", "Deposit", "Payroll", "500.00", "1000.00">> >>,
      << <<"Mar02", "Payroll", "1,234.56", "1000.00">> >>,
      << <<"Statement", "2024">>,
         <<"Mar02", "Payroll", "-5.00", "1000.00">> >>,             \* signed amount
      << <<"Feb30", "Payroll", "45.67", "1000.00">>,
         <<"May", "Payroll", "45.67", "1000.00">> >>,               \* dates that parse with no year
      << <<"Mar02", "POSGroceryMart", "45.67", "1000.00">>,
         <<"May">> >> }                                             \* raises IndexError

PageIdle ==
    /\ pc_page = "idle" /\ page_year = None /\ page_tx = <<>> /\ prev_tx = <<>>
    /\ line = <<>> /\ n_lines = 0 /\ start_skipped = FALSE

Init ==
    /\ pc = "listdir" /\ pdf_files = 0 /\ f = 0 /\ p = 0
    /\ extracted_year = None /\ transactions = <<>>
    /\ all_transactions = [columns |-> FALSE, rows |-> <<>>]
    /\ ledger = <<>> /\ ledger2 = <<>>
    /\ raw_df = [columns |-> FALSE, rows |-> <<>>]
    /\ page_years = <<>> /\ page_tokens = <<>> /\ page_lines = <<>>
    /\ tx_before = <<>>
    /\ file_log = <<>> /\ expected = <<>>
    /\ yearless = 0
    /\ PageIdle /\ CatIdle /\ QueryIdle /\ RagIdle

\* Line 112: pd.concat([all_transactions, transactions], ignore_index=True)
Concat(table, tx) == [columns |-> TRUE, rows |-> table.rows \o DataFrame(tx)]

\* ResolveYear without the guard `if not extracted_year`.
ResolveYearEveryPage(year, lines) == extract_year(lines)

\* Lines 85-86: the year the page is classified with.
ResolveYear(year, lines) == IF year = None THEN extract_year(lines) ELSE year

\* Lines 100-105: the directory is listed; no PDF file is a ValueError.
ListDir ==
    /\ pc = "listdir"
    /\ \E k \in 0..MaxFiles :
         /\ pdf_files' = k
         /\ pc' = IF k = 0 THEN "no_pdf_files" ELSE "next_file"
    /\ UNCHANGED <<f, p, extracted_year, transactions, all_transactions, ledger,
                   ledger2, raw_df, page_years, page_tokens, page_lines, tx_before, file_log, expected, yearless,
                   pageVars, otherVars>>

\* OpenPdf with the year of the file before carried into the call.
OpenPdfYearKept ==
    /\ pc = "next_file" /\ f < pdf_files
    /\ pc' = "pages"
    /\ p' = 0 /\ transactions' = <<>>
    /\ page_years' = <<>> /\ page_tokens' = <<>> /\ page_lines' = <<>> /\ tx_before' = <<>>
    /\ UNCHANGED <<pdf_files, f, extracted_year, all_transactions, ledger, ledger2,
                   raw_df, file_log, expected, yearless, pageVars, otherVars>>

\* Lines 107-111, 73-76: the next file is opened.
OpenPdf ==
    /\ pc = "next_file" /\ f < pdf_files
    /\ pc' = "pages"
    /\ p' = 0 /\ extracted_year' = None /\ transactions' = <<>>
    /\ page_years' = <<>> /\ page_tokens' = <<>> /\ page_lines' = <<>> /\ tx_before' = <<>>
    /\ UNCHANGED <<pdf_files, f, all_transactions, ledger, ledger2, raw_df, file_log,
                   expected, yearless, pageVars, otherVars>>

\* process_single_pdf is left: its list and its page counter are gone; the
\* year of the call stays in extracted_year until the next call sets its own.
LeavePdf ==
    /\ p' = 0 /\ transactions' = <<>>
    /\ page_years' = <<>> /\ page_tokens' = <<>> /\ page_lines' = <<>> /\ tx_before' = <<>>
    /\ UNCHANGED extracted_year

\* FileSkipped with the rows built before the exception kept.
FileSkippedRowsKept ==
    /\ pc' = "next_file"
    /\ f' = f + 1
    /\ file_log' = Append(file_log, [ok |-> FALSE, rows |-> Len(transactions)])
    /\ all_transactions' = [columns |-> TRUE,
                            rows |-> all_transactions.rows \o DataFrame(transactions)]
    /\ LeavePdf
    /\ UNCHANGED <<pdf_files, ledger, ledger2, raw_df, expected, yearless, pageVars, otherVars>>

\* Lines 114-115: what the except clause leaves: the file is skipped.
FileSkipped ==
    /\ pc' = "next_file"
    /\ f' = f + 1
    /\ file_log' = Append(file_log, [ok |-> FALSE, rows |-> Len(transactions)])
    /\ LeavePdf
    /\ UNCHANGED <<pdf_files, all_transactions, ledger, ledger2, raw_df, expected, yearless,
                   pageVars, otherVars>>

\* Line 75 raises: the file cannot be opened.
OpenFails ==
    /\ pc = "next_file" /\ f < pdf_files
    /\ FileSkipped

\* Lines 78-81: a page without text is passed over.
SkipPage ==
    /\ pc = "pages" /\ p < MaxPages
    /\ p' = p + 1
    /\ UNCHANGED <<pc, pdf_files, f, extracted_year, transactions, all_transactions,
                   ledger, ledger2, raw_df, page_years, page_tokens, page_lines, tx_before, file_log, expected,
                   yearless, pageVars, otherVars>>

\* Extend with the list of the file handed to the page function, so that the
\* first lines of a page continue the last record of the page before.
ExtendCarrying(tx, lines, year) == ExtractFrom(tx, lines, year).tx

\* Lines 87-88: transactions.extend(extract_transactions_from_page(lines,
\* extracted_year)); the page function starts from its own empty list (line 35).
Extend(tx, lines, year) == tx \o extract_transactions_from_page(lines, year).tx

\* Lines 78-88: a page with text; an exception of
\* extract_transactions_from_page leaves process_single_pdf.
ReadPage ==
    /\ pc = "pages" /\ p < MaxPages
    /\ \E lines \in PageTexts :
         LET year == ResolveYear(extracted_year, lines)
             r    == extract_transactions_from_page(lines, year)
         IN  IF r.exc # "" THEN FileSkipped
             ELSE /\ Len(all_transactions.rows) + Len(transactions) + Len(r.tx) <= MaxRows
                  /\ extracted_year' = year
                  /\ transactions' = Extend(transactions, lines, year)
                  /\ p' = p + 1
                  /\ page_years' = Append(page_years, year)
                  /\ page_tokens' = Append(page_tokens, extract_year(lines))
                  /\ page_lines' = lines /\ tx_before' = transactions
                  /\ UNCHANGED <<pc, pdf_files, f, all_transactions, ledger, ledger2, raw_df,
                                 file_log, expected, yearless, pageVars, otherVars>>

\* PageFails with the rows of the pages read before kept in the table.
PageFailsRowsKept ==
    /\ pc = "pages" /\ p < MaxPages
    /\ FileSkippedRowsKept

\* Line 79 raises: the text of a page cannot be extracted.
PageFails ==
    /\ pc = "pages" /\ p < MaxPages
    /\ FileSkipped

\* Lines 90-91, 111-113: the pages are exhausted, the file's table is
\* returned and concatenated.
ClosePdf ==
    /\ pc = "pages"
    /\ all_transactions' = Concat(all_transactions, transactions)
    /\ file_log' = Append(file_log, [ok |-> TRUE, rows |-> Len(transactions)])
    /\ expected' = expected \o DataFrame(transactions)
    /\ yearless' = yearless + (IF extracted_year = None THEN Len(transactions) ELSE 0)
    /\ f' = f + 1
    /\ pc' = "next_file"
    /\ LeavePdf
    /\ UNCHANGED <<pdf_files, ledger, ledger2, raw_df, pageVars, otherVars>>

\* Line 117: every file has been tried.
ReturnAll ==
    /\ pc = "next_file" /\ f = pdf_files
    /\ pc' = "extracted"
    /\ raw_df' = all_transactions
    /\ UNCHANGED <<pdf_files, f, p, extracted_year, transactions, all_transactions,
                   ledger, ledger2, page_years, page_tokens, page_lines, tx_before, file_log, expected,
                   yearless, pageVars, otherVars>>

\* rag_system.py line 104: process_transactions(raw_df)
Normalize ==
    /\ pc = "extracted"
    /\ IF ProcessRaises(raw_df) # ""
       THEN pc' = "process_raised" /\ ledger' = ledger /\ raw_df' = raw_df
       ELSE /\ pc' = "processed"
            /\ ledger' \in process_transactions(raw_df.rows)
            /\ raw_df' = [raw_df EXCEPT !.rows = AssignColumns(raw_df.rows)]
    /\ UNCHANGED <<pdf_files, f, p, extracted_year, transactions, all_transactions,
                   ledger2, page_years, page_tokens, page_lines, tx_before, file_log, expected, yearless,
                   pageVars, otherVars>>

\* process_transactions applied to the table it returned.
Renormalize ==
    /\ pc = "processed"
    /\ IF ProcessRaises([columns |-> TRUE, rows |-> ledger]) # ""
       THEN pc' = "reprocess_raised" /\ ledger2' = ledger2
       ELSE pc' = "reprocessed" /\ ledger2' \in process_transactions(ledger)
    /\ UNCHANGED <<pdf_files, f, p, extracted_year, transactions, all_transactions,
                   ledger, raw_df, page_years, page_tokens, page_lines, tx_before, file_log, expected, yearless,
                   pageVars, otherVars>>

Next ==
    \/ ListDir \/ OpenPdf \/ OpenFails \/ SkipPage \/ ReadPage \/ PageFails
    \/ ClosePdf \/ ReturnAll \/ Normalize \/ Renormalize

Spec == Init /\ [][Next]_vars

-----------------------------------------------------------------------------
(* Specification of categorize_transaction *)

\* Descriptions: the pieces between the spaces of the text.
Descriptions ==
    { <<"POS", "Grocery", "Mart">>,
      <<"pos", "grocery", "mart">>,
      <<"Deposit", "Payroll">>,
      <<"Payroll">>,
      <<"Grocery", "Mart", "Deposit">>,        \* keywords of two categories
      <<"WALMART">>,                           \* a keyword inside a word
      <<"Supermarket">>,
      <<"MB", "Transfer", "from">>,
      <<"Opening", "Balance">>,
      <<"">>,                                  \* the empty text
      NaN }                                    \* no description

\* CATEGORIES mappings a configuration file can hold.
Configs ==
    { CATEGORIES,
      << CATEGORIES[2], CATEGORIES[1] >>,
      << [category |-> "groceries", keywords |-> {"Mart"}],      \* a keyword with a capital
         [category |-> "income",    keywords |-> {"payroll"}] >>,
      << [category |-> "groceries", keywords |-> {"mart"}],
         [category |-> "shopping",  keywords |-> {"mart", "market"}] >>,  \* a shared keyword
      << [category |-> "transfers", keywords |-> {"transfer"}] >>,
      << >> }

InitCat ==
    /\ pc_cat = "call"
    /\ description \in Descriptions
    /\ categories \in Configs
    /\ label = ""
    /\ PageIdle /\ BatchIdle /\ QueryIdle /\ RagIdle

\* Lines 7-19
CategorizeTransaction ==
    /\ pc_cat = "call"
    /\ label' = Categorize(categories, description)
    /\ pc_cat' = "returned"
    /\ UNCHANGED <<description, categories, pageVars, batchVars, queryVars, ragVars>>

NextCat == CategorizeTransaction

SpecCat == InitCat /\ [][NextCat]_vars

-----------------------------------------------------------------------------
(* query_structured_data *)

\* phrase in query_lower
Has(query_lower, phrase) == PhraseIn(phrase, query_lower)

\* TimePeriod testing the month cues before the week cues.
TimePeriodMonthFirst(q) ==
    IF Has(q, <<"last", "month">>) \/ Has(q, <<"past", "month">>) THEN "last month"
    ELSE IF Has(q, <<"last", "week">>) \/ Has(q, <<"past", "week">>) THEN "last week"
    ELSE IF Has(q, <<"this", "month">>) \/ Has(q, <<"current", "month">>) THEN "this month"
    ELSE IF Has(q, <<"this", "year">>) \/ Has(q, <<"current", "year">>) THEN "this year"
    ELSE IF Has(q, <<"last", "year">>) THEN "last year"
    ELSE "in your records"

\* Lines 19-38: the label of the time window, by the if/elif chain.
TimePeriod(q) ==
    IF Has(q, <<"last", "week">>) \/ Has(q, <<"past", "week">>) THEN "last week"
    ELSE IF Has(q, <<"last", "month">>) \/ Has(q, <<"past", "month">>) THEN "last month"
    ELSE IF Has(q, <<"this", "month">>) \/ Has(q, <<"current", "month">>) THEN "this month"
    ELSE IF Has(q, <<"this", "year">>) \/ Has(q, <<"current", "year">>) THEN "this year"
    ELSE IF Has(q, <<"last", "year">>) THEN "last year"
    ELSE "in your records"

\* df['Date'] >= today - timedelta(days=n).  A Date is a midnight; today is
\* a midnight only when the clock reads exactly 00:00:00.
SinceDaysAgo(d, now, n) ==
    /\ d # NaT
    /\ Ordinal(d) - (Ordinal(now.date) - n) >= (IF now.midnight THEN 0 ELSE 1)

\* Lines 21-38: the row test of the window.
InPeriod(period, row, now) ==
    CASE period = "last week"  -> SinceDaysAgo(row.Date.d, now, 7)
      [] period = "last month" -> SinceDaysAgo(row.Date.d, now, 30)
      [] period = "this month" -> row.Date.d.mon = now.date.mon
      [] period = "this year"  -> row.Date.d.year = now.date.year
      [] period = "last year"  -> row.Date.d.year = now.date.year - 1
      [] OTHER                 -> TRUE

\* Lines 41-48: the category inferred from the question, None when no
\* keyword of the mapping is in it.
InferCategory(q) == FirstMatching(CATEGORIES, q, None)

\* TypeCue testing the deposit cues before the withdrawal cues.
TypeCueDepositFirst(q) ==
    IF Has(q, <<"deposit">>) \/ Has(q, <<"received">>) \/ Has(q, <<"income">>)
    THEN "deposit"
    ELSE IF Has(q, <<"withdrawal">>) \/ Has(q, <<"spent">>) \/ Has(q, <<"paid">>)
         THEN "withdrawal"
         ELSE None

\* Lines 51-54: the transaction type inferred from the question.
TypeCue(q) ==
    IF Has(q, <<"withdrawal">>) \/ Has(q, <<"spent">>) \/ Has(q, <<"paid">>)
    THEN "withdrawal"
    ELSE IF Has(q, <<"deposit">>) \/ Has(q, <<"received">>) \/ Has(q, <<"income">>)
         THEN "deposit"
         ELSE None

\* Lines 18-54: filtered_df after the three filters.
Filtered(table, q, now) ==
    LET period == TimePeriod(q)
        cat    == InferCategory(q)
        type   == TypeCue(q)
        byTime == SelectSeq(table, LAMBDA r : InPeriod(period, r, now))
        byCat  == IF cat = None THEN byTime
                  ELSE SelectSeq(byTime, LAMBDA r : r.Category = cat)
    IN  CASE type = "withdrawal" -> SelectSeq(byCat, LAMBDA r : r.Withdrawals.n > 0)
          [] type = "deposit"    -> SelectSeq(byCat, LAMBDA r : r.Deposits.n > 0)
          [] OTHER               -> byCat

\* TableAfter with the filters applied to the table itself.
FilteredInPlace(table, q, now) == Filtered(table, q, now)

\* Line 18: filtered_df = df.copy(), and every filter of lines 21-54 indexes
\* filtered_df with a mask, which gives a new table: the table the caller
\* passed, after the call.
TableAfter(table, q, now) == table

\* Formatter testing the average cues before the total cues.
FormatterAverageFirst(q) ==
    IF Has(q, <<"average">>) \/ Has(q, <<"mean">>) THEN "average"
    ELSE IF Has(q, <<"total">>) \/ Has(q, <<"sum">>) \/ Has(q, <<"how", "much">>)
               \/ Has(q, <<"amount">>) THEN "total"
    ELSE IF Has(q, <<"largest">>) \/ Has(q, <<"biggest">>)
               \/ Has(q, <<"most", "expensive">>) \/ Has(q, <<"highest">>) THEN "largest"
    ELSE IF Has(q, <<"smallest">>) \/ Has(q, <<"lowest">>) THEN "smallest"
    ELSE IF Has(q, <<"count">>) \/ Has(q, <<"how", "many">>) \/ Has(q, <<"number">>)
         THEN "count"
    ELSE IF Has(q, <<"breakdown">>) \/ Has(q, <<"category">>) \/ Has(q, <<"categories">>)
         THEN "breakdown"
    ELSE "recent"

\* Lines 60-74: the formatter the question selects, by the if/elif chain.
Formatter(q) ==
    IF Has(q, <<"total">>) \/ Has(q, <<"sum">>) \/ Has(q, <<"how", "much">>)
           \/ Has(q, <<"amount">>) THEN "total"
    ELSE IF Has(q, <<"average">>) \/ Has(q, <<"mean">>) THEN "average"
    ELSE IF Has(q, <<"largest">>) \/ Has(q, <<"biggest">>)
               \/ Has(q, <<"most", "expensive">>) \/ Has(q, <<"highest">>) THEN "largest"
    ELSE IF Has(q, <<"smallest">>) \/ Has(q, <<"lowest">>) THEN "smallest"
    ELSE IF Has(q, <<"count">>) \/ Has(q, <<"how", "many">>) \/ Has(q, <<"number">>)
         THEN "count"
    ELSE IF Has(q, <<"breakdown">>) \/ Has(q, <<"category">>) \/ Has(q, <<"categories">>)
         THEN "breakdown"
    ELSE "recent"

RECURSIVE Sum(_)
Sum(ns) == IF ns = <<>> THEN 0 ELSE Head(ns) + Sum(Tail(ns))

\* df['Withdrawals ($)'].sum(), df['Deposits ($)'].sum()
SumWithdrawals(rows) == Sum([i \in 1..Len(rows) |-> rows[i].Withdrawals.n])
SumDeposits(rows) == Sum([i \in 1..Len(rows) |-> rows[i].Deposits.n])

\* The rows in descending order of their keys, the first of equal keys
\* first.
RECURSIVE Descending(_, _)
Descending(rows, keys) ==
    IF rows = <<>> THEN <<>>
    ELSE LET first == CHOOSE i \in 1..Len(rows) :
                          /\ \A j \in 1..Len(rows) : keys[i] >= keys[j]
                          /\ \A j \in 1..(i - 1) : keys[j] < keys[i]
         IN  <<rows[first]>> \o Descending(RemoveAt(rows, first), RemoveAt(keys, first))

\* df.head(n)
Head_n(n, rows) == SubSeq(rows, 1, IF Len(rows) < n THEN Len(rows) ELSE n)

\* df.nlargest(n, 'Amount') and df.nsmallest(n, 'Amount')
nlargest(n, rows) ==
    Head_n(n, Descending(rows, [i \in 1..Len(rows) |-> rows[i].Amount]))
nsmallest(n, rows) ==
    Head_n(n, Descending(rows, [i \in 1..Len(rows) |-> 0 - rows[i].Amount]))

\* Rows shown by nlargest/nsmallest and by head.
TopRows == 5
RecentRows == 10

\* The bullet lines of an answer: row['Date'].strftime('%b %d, %Y'), the
\* amount, the description.
Bullets(rows) ==
    [i \in 1..Len(rows) |-> [date        |-> Strftime(rows[i].Date.d),
                             amount      |-> rows[i].Amount,
                             description |-> rows[i].Description]]

\* strftime of a Date that is NaT raises ValueError.
BulletsRaise(rows) == \E i \in 1..Len(rows) : rows[i].Date.d = NaT

\* A quotient printed with two decimals, kept as <<dividend, divisor>>.
Quotient(a, b) == <<a, b>>

Returned(value) == [exc |-> "", value |-> value]
Raised(exc) == [exc |-> exc, value |-> NoAnswer]

\* Lines 76-107
_format_total_response(rows, period, cat, q) ==
    LET total_spent    == SumWithdrawals(rows)
        total_received == SumDeposits(rows)
        count          == Len(rows)
        shown == IF Has(q, <<"spent">>) \/ Has(q, <<"withdrawal">>) \/ cat # None
                 THEN "spent"
                 ELSE IF Has(q, <<"deposit">>) \/ Has(q, <<"received">>) THEN "received"
                      ELSE "net"
        top == nlargest(TopRows, rows)
    IN  IF BulletsRaise(top) THEN Raised("ValueError")
        ELSE Returned([kind |-> "Summary", time_period |-> period, category |-> cat,
                       shown |-> shown,
                       total_spent |-> total_spent, total_received |-> total_received,
                       count |-> count,
                       average |-> IF shown = "spent" /\ count > 0
                                   THEN Quotient(total_spent, count) ELSE <<>>,
                       rows |-> Bullets(top)])

\* Lines 109-116
_format_average_response(rows, period, cat) ==
    Returned([kind |-> "Average spent", time_period |-> period, category |-> cat,
              average |-> Quotient(SumWithdrawals(rows), Len(rows))])

\* Lines 118-124
_format_largest_response(rows, period) ==
    LET largest == nlargest(TopRows, rows) IN
    IF BulletsRaise(largest) THEN Raised("ValueError")
    ELSE Returned([kind |-> "Largest transactions", time_period |-> period,
                   rows |-> Bullets(largest)])

\* Lines 126-132
_format_smallest_response(rows, period) ==
    LET smallest == nsmallest(TopRows, SelectSeq(rows, LAMBDA r : r.Amount > 0)) IN
    IF BulletsRaise(smallest) THEN Raised("ValueError")
    ELSE Returned([kind |-> "Smallest transactions", time_period |-> period,
                   rows |-> Bullets(smallest)])

\* Lines 134-140
_format_count_response(rows, period, cat) ==
    Returned([kind |-> "You made", count |-> Len(rows), time_period |-> period,
              category |-> cat])

\* Lines 142-150: per category of the rows, the withdrawals and their share
\* of the total, 0 when the total is not positive.
_format_breakdown_response(rows, period) ==
    LET total == SumWithdrawals(rows)
        cats  == { rows[i].Category : i \in 1..Len(rows) }
        amount(c) == SumWithdrawals(SelectSeq(rows, LAMBDA r : r.Category = c))
    IN  Returned([kind |-> "Category breakdown", time_period |-> period,
                  shares |-> [c \in cats |->
                                [amount     |-> amount(c),
                                 percentage |-> IF total > 0
                                                THEN Quotient(amount(c) * 100, total)
                                                ELSE Quotient(0, 1)]]])

\* Lines 152-163
_format_recent_response(rows, period, cat) ==
    LET recent == Head_n(RecentRows, rows) IN
    IF BulletsRaise(recent) THEN Raised("ValueError")
    ELSE Returned([kind |-> "Recent transactions", time_period |-> period,
                   category |-> cat,
                   rows |-> [i \in 1..Len(recent) |->
                                [date        |-> Strftime(recent[i].Date.d),
                                 amount      |-> recent[i].Amount,
                                 description |-> recent[i].Description,
                                 balance     |-> recent[i].Balance.n]]])

\* Line 57
NoTransactionsFound(period, cat) ==
    [kind |-> "No transactions found", time_period |-> period, category |-> cat]

\* Lines 60-74: the call of the formatter selected.
Dispatch(rows, period, cat, q) ==
    LET fmt == Formatter(q) IN
    CASE fmt = "total"     -> _format_total_response(rows, period, cat, q)
      [] fmt = "average"   -> _format_average_response(rows, period, cat)
      [] fmt = "largest"   -> _format_largest_response(rows, period)
      [] fmt = "smallest"  -> _format_smallest_response(rows, period)
      [] fmt = "count"     -> _format_count_response(rows, period, cat)
      [] fmt = "breakdown" -> _format_breakdown_response(rows, period)
      [] OTHER             -> _format_recent_response(rows, period, cat)

\* query_structured_data without the test of lines 56-57.
QueryWithoutEmptyTest(question, table, now) ==
    LET q == LowerAll(question) IN
    Dispatch(Filtered(table, q, now), TimePeriod(q), InferCategory(q), q)

\* Lines 9-74: what the call returns or raises.
query_structured_data(question, table, now) ==
    LET q    == LowerAll(question)
        rows == Filtered(table, q, now)
    IN  IF rows = <<>> THEN Returned(NoTransactionsFound(TimePeriod(q), InferCategory(q)))
        ELSE Dispatch(rows, TimePeriod(q), InferCategory(q), q)

-----------------------------------------------------------------------------
(* Specification of query_structured_data: questions put to one ledger *)

\* Rows of a raw table.
RawRows ==
    { [date |-> "Mar 02, 2024", description |-> <<"POS", "Grocery", "Mart">>,
       withdrawal |-> "45.67", deposit |-> None, balance |-> "1000.00"],
      [date |-> "Mar 02, 2024", description |-> <<"Grocery", "Mart", "Deposit">>,
       withdrawal |-> None, deposit |-> "45.67", balance |-> "1000.00"],   \* a refund
      [date |-> "Apr 15, 2024", description |-> <<"Deposit", "Payroll">>,
       withdrawal |-> None, deposit |-> "500.00", balance |-> "1000.00"],
      [date |-> "Mar 02, 2023", description |-> <<"MB", "Transfer", "from">>,
       withdrawal |-> "0.00", deposit |-> None, balance |-> "1000.00"],    \* a zero amount
      [date |-> "Apr 15, 2023", description |-> <<"Opening", "Balance">>,
       withdrawal |-> "1000.00", deposit |-> None, balance |-> "1000.00"],
      [date |-> "Feb30", description |-> <<"Payroll">>,
       withdrawal |-> "45.67", deposit |-> None, balance |-> "1000.00"] }  \* no date

RawTables == UNION { [1..n -> RawRows] : n \in 1..MaxLedgerRows }

\* process_transactions(raw_df): the ledgers a raw table with rows can give.
Ledgers == UNION { process_transactions(DataFrame(t)) : t \in RawTables }

\* Readings of the clock.
Nows ==
    { [date |-> [year |-> 2024, mon |-> 3, day |-> 9],  midnight |-> FALSE],
      [date |-> [year |-> 2024, mon |-> 3, day |-> 9],  midnight |-> TRUE],
      [date |-> [year |-> 2024, mon |-> 4, day |-> 1],  midnight |-> FALSE],
      [date |-> [year |-> 2024, mon |-> 4, day |-> 1],  midnight |-> TRUE],
      [date |-> [year |-> 2024, mon |-> 4, day |-> 20], midnight |-> FALSE],
      [date |-> [year |-> 2025, mon |-> 3, day |-> 20], midnight |-> FALSE] }

\* The cue phrases of the code, as the pieces between their spaces.
TimeCues ==
    { <<"last", "week">>, <<"past", "week">>, <<"last", "month">>, <<"past", "month">>,
      <<"this", "month">>, <<"current", "month">>, <<"this", "year">>,
      <<"current", "year">>, <<"last", "year">> }
TypeCues ==
    { <<"withdrawal">>, <<"spent">>, <<"paid">>, <<"deposit">>, <<"received">>,
      <<"income">> }
FormatCues ==
    { <<"total">>, <<"sum">>, <<"how", "much">>, <<"amount">>, <<"average">>,
      <<"mean">>, <<"largest">>, <<"biggest">>, <<"most", "expensive">>, <<"highest">>,
      <<"smallest">>, <<"lowest">>, <<"count">>, <<"how", "many">>, <<"number">>,
      <<"breakdown">>, <<"category">>, <<"categories">> }

\* Questions: one cue, two time cues, two formatter cues, and whole
\* sentences, two of them with cues of both transaction types.
Questions ==
    TimeCues \cup TypeCues \cup FormatCues
    \cup { <<kw>> : kw \in UNION { CATEGORIES[i].keywords : i \in 1..Len(CATEGORIES) } }
    \cup { a \o b : a, b \in { <<"past", "week">>, <<"last", "month">>,
                                <<"current", "month">>, <<"this", "year">>,
                                <<"last", "year">> } }
    \cup { a \o b : a, b \in { <<"amount">>, <<"mean">>, <<"most", "expensive">>,
                                <<"lowest">>, <<"how", "many">>, <<"categories">> } }
    \cup { <<"How", "much", "did", "I", "spend", "on", "groceries", "last", "month">>,
           <<"How", "much", "did", "I", "spend", "on", "grocery", "last", "month">>,
           <<"What's", "my", "total", "spending", "this", "month">>,
           <<"Total", "spent", "at", "walmart", "last", "month">>,
           <<"average", "spent", "at", "walmart", "last", "month">>,
           <<"summary", "of", "my", "account">>,
           <<"Last", "weekend">>,
           <<"almost", "expensive">>,
           <<"show", "my", "transactions">>,
           <<"largest", "deposits", "this", "year">>,
           <<"average", "paid", "past", "week">>,
           <<"lowest", "income", "received", "last", "year">>,
           <<"payroll", "breakdown", "current", "year">>,
           <<"spent", "received">>,
           <<"income", "paid", "this", "year">>,
           <<"">> }

InitQuery ==
    /\ pc_query = "ready"
    /\ df \in Ledgers
    /\ df0 = df /\ asked = 0
    /\ query = <<>>
    /\ today = [date |-> NaT, midnight |-> TRUE]
    /\ time_period = "" /\ category = None /\ filtered_df = <<>>
    /\ answer = NoAnswer
    /\ PageIdle /\ BatchIdle /\ CatIdle /\ RagIdle

\* rag_system.py lines 122-123, query_engine.py lines 9-74: the tool is
\* called with a question.
Ask ==
    /\ pc_query = "ready" /\ asked < MaxQuestions
    /\ asked' = asked + 1
    /\ \E question \in Questions, now \in Nows :
         LET q == LowerAll(question)
             r == query_structured_data(question, df, now)
         IN  /\ query' = question
             /\ today' = now
             /\ time_period' = TimePeriod(q)
             /\ category' = InferCategory(q)
             /\ filtered_df' = Filtered(df, q, now)
             /\ df' = TableAfter(df, q, now)
             /\ answer' = r.value
             /\ pc_query' = IF r.exc # "" THEN "raised" ELSE "answered"
    /\ UNCHANGED <<df0, pageVars, batchVars, catVars, ragVars>>

\* The answer has gone to the agent: the locals of the call are gone.
Reply ==
    /\ pc_query = "answered"
    /\ pc_query' = "ready"
    /\ query' = <<>>
    /\ today' = [date |-> NaT, midnight |-> TRUE]
    /\ time_period' = "" /\ category' = None /\ filtered_df' = <<>>
    /\ answer' = NoAnswer
    /\ UNCHANGED <<df, df0, asked, pageVars, batchVars, catVars, ragVars>>

NextQuery == Ask \/ Reply

SpecQuery == InitQuery /\ [][NextQuery]_vars

-----------------------------------------------------------------------------
(* Specification of BankStatementRAG: constructions over the same directories *)

\* What extract_all_pdfs and process_transactions make of the PDF files:
\* Absent when they raise (no PDF file, no row), ledger 0 when no row has a
\* date, a ledger with rows otherwise.
PdfStates == {Absent} \cup { Holding(k) : k \in 0..MaxStatements }

\* The directories before the first construction: nothing has been saved.
InitRag ==
    /\ pc_rag = "off" /\ runs = 0 /\ force_refresh = FALSE
    /\ pdf_data \in PdfStates
    /\ csv_file = Absent /\ index_file = Absent
    /\ needs_extraction = FALSE /\ needs_vectors = FALSE
    /\ transactions_df = Absent /\ vectorstore = Absent /\ agent = FALSE
    /\ PageIdle /\ BatchIdle /\ CatIdle /\ QueryIdle

\* Lines 24-47: BankStatementRAG(config, force_refresh)
Construct ==
    /\ pc_rag = "off" /\ runs < MaxRuns
    /\ runs' = runs + 1
    /\ force_refresh' \in BOOLEAN
    /\ transactions_df' = Absent /\ vectorstore' = Absent /\ agent' = FALSE
    /\ needs_extraction' = FALSE /\ needs_vectors' = FALSE
    /\ pc_rag' = "initialize"
    /\ UNCHANGED <<pdf_data, csv_file, index_file, pageVars, batchVars, catVars, queryVars>>

\* Lines 52-60: the saved ledger is there and has at least one row.
csv_has_data(file) == file.here /\ file.ledger > 0

\* Lines 51-65: what has to be made again.
CheckFiles ==
    /\ pc_rag = "initialize"
    /\ needs_extraction' = (force_refresh \/ ~csv_has_data(csv_file))
    /\ needs_vectors' = (force_refresh \/ ~index_file.here)
    /\ pc_rag' = "ledger"
    /\ UNCHANGED <<runs, force_refresh, pdf_data, csv_file, index_file, transactions_df,
                   vectorstore, agent, pageVars, batchVars, catVars, queryVars>>

\* Lines 67-69, 99-106: _extract_and_process(); an exception of
\* extract_all_pdfs or process_transactions leaves the constructor.
ExtractAndProcess ==
    /\ pc_rag = "ledger" /\ needs_extraction
    /\ IF ~pdf_data.here
       THEN pc_rag' = "raised" /\ UNCHANGED <<transactions_df, csv_file>>
       ELSE /\ transactions_df' = pdf_data
            /\ csv_file' = pdf_data
            /\ pc_rag' = "have_ledger"
    /\ UNCHANGED <<runs, force_refresh, pdf_data, index_file, needs_extraction,
                   needs_vectors, vectorstore, agent, pageVars, batchVars, catVars,
                   queryVars>>

\* Lines 70-73: the saved ledger is read and processed.
LoadCsv ==
    /\ pc_rag = "ledger" /\ ~needs_extraction
    /\ transactions_df' = csv_file
    /\ pc_rag' = "have_ledger"
    /\ UNCHANGED <<runs, force_refresh, pdf_data, csv_file, index_file, needs_extraction,
                   needs_vectors, vectorstore, agent, pageVars, batchVars, catVars,
                   queryVars>>

\* Lines 76-80: a ledger without rows ends the initialisation, no agent is
\* set up.
NoData ==
    /\ pc_rag = "have_ledger" /\ transactions_df.ledger = 0
    /\ pc_rag' = "no_data"
    /\ UNCHANGED <<runs, force_refresh, pdf_data, csv_file, index_file, needs_extraction,
                   needs_vectors, transactions_df, vectorstore, agent, pageVars,
                   batchVars, catVars, queryVars>>

\* Lines 82-84, 109-116: the vector store is built from self.transactions_df
\* and saved.
BuildVectorStore ==
    /\ pc_rag = "have_ledger" /\ transactions_df.ledger # 0 /\ needs_vectors
    /\ vectorstore' = transactions_df
    /\ index_file' = transactions_df
    /\ pc_rag' = "have_vectors"
    /\ UNCHANGED <<runs, force_refresh, pdf_data, csv_file, needs_extraction,
                   needs_vectors, transactions_df, agent, pageVars, batchVars, catVars,
                   queryVars>>

\* Lines 85-91: the saved index is loaded.
LoadVectorStore ==
    /\ pc_rag = "have_ledger" /\ transactions_df.ledger # 0 /\ ~needs_vectors
    /\ vectorstore' = index_file
    /\ pc_rag' = "have_vectors"
    /\ UNCHANGED <<runs, force_refresh, pdf_data, csv_file, index_file, needs_extraction,
                   needs_vectors, transactions_df, agent, pageVars, batchVars, catVars,
                   queryVars>>

\* Lines 94-95: _setup_agent()
SetupAgent ==
    /\ pc_rag = "have_vectors"
    /\ agent' = TRUE
    /\ pc_rag' = "ready"
    /\ UNCHANGED <<runs, force_refresh, pdf_data, csv_file, index_file, needs_extraction,
                   needs_vectors, transactions_df, vectorstore, pageVars,
                   batchVars, catVars, queryVars>>

\* The process ends; the files stay.
Exit ==
    /\ pc_rag \in {"ready", "no_data", "raised"}
    /\ pc_rag' = "off"
    /\ UNCHANGED <<runs, force_refresh, pdf_data, csv_file, index_file, needs_extraction,
                   needs_vectors, transactions_df, vectorstore, agent, pageVars,
                   batchVars, catVars, queryVars>>

\* Between two constructions the statements of DATA_DIR are replaced.
ChangePdfs ==
    /\ pc_rag = "off" /\ runs > 0
    /\ pdf_data' \in PdfStates \ {pdf_data}
    /\ UNCHANGED <<pc_rag, runs, force_refresh, csv_file, index_file, needs_extraction,
                   needs_vectors, transactions_df, vectorstore, agent, pageVars,
                   batchVars, catVars, queryVars>>

\* Between two constructions the saved ledger is removed.
RemoveCsv ==
    /\ pc_rag = "off" /\ csv_file.here
    /\ csv_file' = Absent
    /\ UNCHANGED <<pc_rag, runs, force_refresh, pdf_data, index_file, needs_extraction,
                   needs_vectors, transactions_df, vectorstore, agent, pageVars,
                   batchVars, catVars, queryVars>>

NextRag ==
    \/ Construct \/ CheckFiles \/ ExtractAndProcess \/ LoadCsv \/ NoData
    \/ BuildVectorStore \/ LoadVectorStore \/ SetupAgent \/ Exit
    \/ ChangePdfs \/ RemoveCsv

SpecRag == InitRag /\ [][NextRag]_vars

-----------------------------------------------------------------------------
(* Properties of extract_transactions_from_page (SpecPage) *)

\* The last iteration read a transaction-start line and appended a record.
Recorded == n_lines > 0 /\ StartsWithMonth(line) /\ Len(page_tx) = Len(prev_tx) + 1

NewRecord == page_tx[Len(page_tx)]

\* C1: extract_transactions_from_page never raises, whatever the lines and
\* the year; a line that starts with a month abbreviation but has fewer than
\* three tokens is skipped or recorded.
C1_NeverRaises == pc_page # "raised"

\* C2: every record has exactly one of withdrawal and deposit populated, the
\* other being None.
C2_OneSidePopulated ==
    \A i \in 1..Len(page_tx) :
        (page_tx[i].withdrawal = None) # (page_tx[i].deposit = None)

C2_Witness ==
    /\ \E i \in 1..Len(page_tx) : page_tx[i].deposit # None
    /\ \E i \in 1..Len(page_tx) : page_tx[i].withdrawal # None

SeparateMonthDay == <<"Mar", "02", "POSGroceryMart", "45.67", "1000.00">>
JoinedMonthDay == <<"Mar02", "POSGroceryMart", "45.67", "1000.00">>

\* C3 as stated: the line 'Mar 02 POSGroceryMart 45.67 1000.00', month and
\* day being separate tokens, read with the year 2024 yields exactly one
\* record, dated 2 March 2024, withdrawal 45.67, no deposit, balance 1000.00.
C3_SeparateTokensRecorded ==
    (n_lines = 1 /\ line = SeparateMonthDay /\ page_year = "2024") =>
        /\ Len(page_tx) = 1
        /\ ToDatetime(StrCell(page_tx[1].date)).d = [year |-> 2024, mon |-> 3, day |-> 2]
        /\ page_tx[1].withdrawal = "45.67"
        /\ page_tx[1].deposit = None
        /\ page_tx[1].balance = "1000.00"

\* C3 amended: the line 'Mar02 POSGroceryMart 45.67 1000.00', month and day
\* being one token, read with the year 2024 yields exactly one record, dated
\* 'Mar 02, 2024' (2 March 2024), description 'POS Grocery Mart', withdrawal
\* 45.67, no deposit, balance 1000.00; with month and day as separate tokens
\* the date does not parse and the line yields no record.
C3_JoinedTokenRecorded ==
    /\ (n_lines > 0 /\ line = JoinedMonthDay /\ page_year = "2024") =>
          /\ Len(page_tx) = Len(prev_tx) + 1
          /\ SubSeq(page_tx, 1, Len(prev_tx)) = prev_tx
          /\ NewRecord = [date        |-> "Mar 02, 2024",
                          description |-> <<"POS", "Grocery", "Mart">>,
                          withdrawal  |-> "45.67",
                          deposit     |-> None,
                          balance     |-> "1000.00"]
          /\ ToDatetime(StrCell(NewRecord.date)).d = [year |-> 2024, mon |-> 3, day |-> 2]
    /\ (n_lines > 0 /\ line = SeparateMonthDay /\ page_year = "2024") =>
          page_tx = prev_tx /\ pc_page # "raised"

C3_Witness ==
    /\ n_lines = 1 /\ line = JoinedMonthDay /\ page_year = "2024"
    /\ Len(page_tx) = 1 /\ page_tx[1].withdrawal = "45.67"

\* C4: when the first token of a transaction-start line with the resolved
\* year appended does not parse as a date, the line is skipped: no record is
\* appended, the records built so far are unchanged, nothing is raised.
C4_UnparsedDateSkipped ==
    (n_lines > 0 /\ StartsWithMonth(line) /\ page_year # None
        /\ Strptime(line[1], page_year) = NaT) =>
            pc_page # "raised" /\ page_tx = prev_tx

TriggerIn(toks) == \E i \in 1..Len(toks) : toks[i] \in {"Deposit", "MB-Transferfrom"}

OnDepositSide(rec, amount) == rec.deposit = amount /\ rec.withdrawal = None
OnWithdrawalSide(rec, amount) == rec.withdrawal = amount /\ rec.deposit = None

\* C5 as stated: a recorded start line with a deposit-trigger token at any
\* token position has its amount in the deposit field and no withdrawal; one
\* with no trigger token has it in the withdrawal field and no deposit.
C5_TriggerAnywhere ==
    Recorded =>
        IF TriggerIn(line)
        THEN NewRecord.deposit # None /\ NewRecord.withdrawal = None
        ELSE NewRecord.withdrawal # None /\ NewRecord.deposit = None

\* C5 amended: the tokens that count are those left once a purely alphabetic
\* last token has been discarded as the trailing tag.  A recorded start line
\* with a trigger token at any position among them has the second-to-last of
\* them in the deposit field and no withdrawal; one with none has it in the
\* withdrawal field and no deposit, also when the discarded tag is 'Deposit'.
C5_TriggerAmongKeptTokens ==
    Recorded =>
        LET kept == IF IsAlpha(line[Len(line)]) THEN SubSeq(line, 1, Len(line) - 1)
                    ELSE line
        IN  IF TriggerIn(kept)
            THEN OnDepositSide(NewRecord, kept[Len(kept) - 1])
            ELSE OnWithdrawalSide(NewRecord, kept[Len(kept) - 1])

C5_Witness ==
    /\ Recorded
    /\ line = <<"Apr15", "Deposit", "Payroll", "500.00", "1000.00">>
    /\ NewRecord.deposit = "500.00"

-----------------------------------------------------------------------------
(* Properties of the batch (Spec) *)

\* C6: once a page of a document has yielded a year, every later page of the
\* document is classified with that year, whether it shows no year or
\* another one.
C6_YearCarriedForward ==
    \A i, j \in 1..Len(page_years) :
        (i < j /\ page_years[i] # None) => page_years[j] = page_years[i]

C6_Witness ==
    /\ pc = "pages" /\ Len(page_years) = 2
    /\ page_years[1] = "2024" /\ page_tokens[2] = "2023" /\ page_years[2] = "2024"
    /\ Len(transactions) = 2 /\ transactions[2].date = "Apr 15, 2024"

Normalized == pc \in {"processed", "reprocessed", "reprocess_raised"}

\* C7: the rows of a document in which no page yields a year all fail the
\* date parse: none of them is in the ledger, and no row of the ledger is
\* dated in a year other than one a statement showed.
C7_NoDefaultedYear ==
    Normalized =>
        /\ Len(ledger) + yearless <= Len(all_transactions.rows)
        /\ \A i \in 1..Len(ledger) : ledger[i].Year \in {2023, 2024}

C7_Witness ==
    pc = "processed" /\ yearless > 0 /\ Len(ledger) > 0

\* C8: files whose processing raises do not stop the batch: every file is
\* tried, and the table returned holds exactly the rows of the files that
\* succeeded, in enumeration order.
C8_FailuresIsolated ==
    /\ Len(file_log) = f
    /\ all_transactions.rows = expected
    /\ pc = "extracted" => f = pdf_files

C8_Witness ==
    /\ pc = "extracted" /\ pdf_files = 2
    /\ ~file_log[1].ok /\ file_log[1].rows > 0
    /\ file_log[2].ok /\ Len(all_transactions.rows) = file_log[2].rows
    /\ file_log[2].rows > 0

\* C9: process_transactions applied to its own output returns the same
\* table: same rows, same values, same order.
C9_Idempotent == pc = "reprocessed" => ledger2 = ledger

PlainPositive(cell) ==
    cell.k = "str" /\ cell.s \in {"45.67", "500.00", "1000.00", "2023", "2024", "02"}

PlainNumeral(cell) == cell.k = "str" /\ IsDecimal(cell.s)

\* C11: after process_transactions the Withdrawals and Deposits of every row
\* are non-negative numbers, and a raw value that is empty or not a plain
\* numeral (a thousands separator, a sign) has been coerced to zero.
C11_AmountsNonNegative ==
    Normalized =>
        /\ \A i \in 1..Len(ledger) :
              /\ ledger[i].Withdrawals.k = "num" /\ ledger[i].Withdrawals.n >= 0
              /\ ledger[i].Deposits.k = "num" /\ ledger[i].Deposits.n >= 0
        /\ \A i \in 1..Len(all_transactions.rows) :
              LET raw == all_transactions.rows[i] IN
              /\ ~PlainNumeral(raw.Withdrawals) => Enrich(raw).Withdrawals.n = 0
              /\ ~PlainNumeral(raw.Deposits) => Enrich(raw).Deposits.n = 0

\* The rows in descending order of Date, rows of equal Date in the order
\* they had: the first of the latest rows, then the rest likewise.
RECURSIVE StableDescending(_)
StableDescending(rows) ==
    IF rows = <<>> THEN <<>>
    ELSE LET latest == { i \in 1..Len(rows) :
                           \A j \in 1..Len(rows) :
                               Ordinal(rows[i].Date.d) >= Ordinal(rows[j].Date.d) }
             first  == CHOOSE i \in latest : \A j \in latest : i <= j
         IN  <<rows[first]>> \o StableDescending(RemoveAt(rows, first))

\* C12: the output of process_transactions holds exactly the input rows whose
\* date parses, in descending order of Date, rows of equal Date keeping the
\* order they had in the input.
C12_StableDescendingOrder ==
    Normalized =>
        ledger = StableDescending(
                    DropNaT([i \in 1..Len(all_transactions.rows) |->
                                Enrich(all_transactions.rows[i])]))

-----------------------------------------------------------------------------
(* Properties of categorize_transaction (SpecCat) *)

\* A keyword of the category is in the description, letter case set aside
\* on both sides.
MatchesIgnoringCase(cat, desc) ==
    desc # NaN /\ \E kw \in cat.keywords : PhraseIn(<<Lower(kw)>>, LowerAll(desc))

\* C13: categorize_transaction returns the first category, in declared
\* order, that has a keyword matching the description as a case-insensitive
\* substring, whatever the letter case of the description and of the
\* keyword, and 'other' when no category matches or the description is
\* missing.
C13_FirstMatchIgnoringCase ==
    pc_cat = "returned" =>
        LET matching == { i \in 1..Len(categories) :
                            MatchesIgnoringCase(categories[i], description) }
        IN  IF matching = {} THEN label = "other"
            ELSE label = categories[CHOOSE i \in matching :
                                       \A j \in matching : i <= j].category

\* C14: for a description containing a configured keyword
\* categorize_transaction returns that keyword's category; for a description
\* containing none it returns 'other'.
C14_CategoryCoverage ==
    pc_cat = "returned" =>
        /\ \A i \in 1..Len(categories) :
              \A kw \in categories[i].keywords :
                  MatchesIgnoringCase([keywords |-> {kw}], description)
                      => label = categories[i].category
        /\ (\A i \in 1..Len(categories) :
                ~MatchesIgnoringCase(categories[i], description))
             => label = "other"

-----------------------------------------------------------------------------
(* Properties of query_structured_data (SpecQuery) *)

Answered == pc_query = "answered"

SpendOnGroceriesLastMonth ==
    <<"How", "much", "did", "I", "spend", "on", "groceries", "last", "month">>

\* C15: a question with a time cue and a category cue is answered over the
\* rows that pass both filters; for 'how much did I spend on groceries last
\* month' the rows aggregated are exactly those with Category = groceries,
\* Date >= now - 30 days and Withdrawals > 0.
C15_FiltersIntersect ==
    /\ (Answered /\ time_period # "in your records" /\ category # None) =>
          \A i \in 1..Len(filtered_df) :
              /\ InPeriod(time_period, filtered_df[i], today)
              /\ filtered_df[i].Category = category
    /\ (Answered /\ query = SpendOnGroceriesLastMonth) =>
          filtered_df = SelectSeq(df, LAMBDA r : /\ r.Category = "groceries"
                                                /\ SinceDaysAgo(r.Date.d, today, 30)
                                                /\ r.Withdrawals.n > 0)

\* The row is dated in the calendar month of the clock reading.
InCurrentMonth(row, now) ==
    row.Date.d.year = now.date.year /\ row.Date.d.mon = now.date.mon

\* C16: a question with a 'this month' or 'current month' cue and no cue of
\* higher priority considers only rows dated in the current calendar month;
\* against a table whose rows all lie outside that month it returns the
\* empty-result message naming 'this month'.
C16_CurrentCalendarMonth ==
    (Answered /\ time_period = "this month") =>
        /\ \A i \in 1..Len(filtered_df) : InCurrentMonth(filtered_df[i], today)
        /\ (\A i \in 1..Len(df) : ~InCurrentMonth(df[i], today)) =>
              answer = NoTransactionsFound("this month", category)

\* The time windows in their order of priority, each with its cues.
Windows ==
    << [label |-> "last week",  cues |-> {<<"last", "week">>, <<"past", "week">>}],
       [label |-> "last month", cues |-> {<<"last", "month">>, <<"past", "month">>}],
       [label |-> "this month", cues |-> {<<"this", "month">>, <<"current", "month">>}],
       [label |-> "this year",  cues |-> {<<"this", "year">>, <<"current", "year">>}],
       [label |-> "last year",  cues |-> {<<"last", "year">>}] >>

\* The windows a question has a cue for.
Cued(groups, question) ==
    { i \in 1..Len(groups) :
        \E cue \in groups[i].cues : PhraseIn(cue, LowerAll(question)) }

\* The label of the window of highest priority among them.
FirstCued(groups, question, none) ==
    IF Cued(groups, question) = {} THEN none
    ELSE groups[CHOOSE i \in Cued(groups, question) :
                    \A j \in Cued(groups, question) : i <= j].label

\* The row passes the type filter of the question.
TypePasses(row, type) ==
    CASE type = "withdrawal" -> row.Withdrawals.n > 0
      [] type = "deposit"    -> row.Deposits.n > 0
      [] OTHER               -> TRUE

\* C17: one time window applies to a question, the one of highest priority
\* (last/past week > last/past month > this/current month > this/current
\* year > last year) among those it has a cue for: it alone filters the
\* table and labels the answer; with no cue the whole table is used and the
\* label is 'in your records'.
C17_OneWindowByPriority ==
    Answered =>
        LET window == FirstCued(Windows, query, "in your records") IN
        /\ time_period = window
        /\ answer.time_period = window
        /\ filtered_df =
              SelectSeq(df, LAMBDA r : /\ InPeriod(window, r, today)
                                       /\ category = None \/ r.Category = category
                                       /\ TypePasses(r, TypeCue(LowerAll(query))))
        /\ (Cued(Windows, query) = {} /\ category = None
                /\ TypeCue(LowerAll(query)) = None) => filtered_df = df

\* A question with cues for the week and the month windows finds nothing in
\* the last week although the ledger has a row of the last 30 days.
C17_Witness ==
    /\ Answered
    /\ Cued(Windows, query) = {1, 2}
    /\ time_period = "last week"
    /\ answer = NoTransactionsFound("last week", None)
    /\ \E i \in 1..Len(df) : InPeriod("last month", df[i], today)

FormatterKinds ==
    {"Summary", "Average spent", "Largest transactions", "Smallest transactions",
     "You made", "Category breakdown", "Recent transactions"}

\* C18: whenever the table left by the time, category and type filters is
\* empty, query_structured_data returns the 'No transactions found' message
\* naming the inferred window and, if one was inferred, the category; no
\* formatter runs, so none receives an empty table.
C18_EmptyResultMessage ==
    /\ (pc_query # "ready" /\ filtered_df = <<>>) =>
          /\ Answered
          /\ answer = [kind        |-> "No transactions found",
                       time_period |-> FirstCued(Windows, query, "in your records"),
                       category    |-> category]
          /\ category = FirstMatching(CATEGORIES, LowerAll(query), None)
    /\ (pc_query # "ready" /\ answer.kind \in FormatterKinds) => filtered_df # <<>>

\* A question about a category in a window, an average included, finds no
\* row in a ledger that has rows.
C18_Witness ==
    /\ Answered /\ df # <<>> /\ filtered_df = <<>>
    /\ query = <<"average", "spent", "at", "walmart", "last", "month">>
    /\ answer = NoTransactionsFound("last month", "groceries")

\* The formatters in their order of priority, each with its cues and the
\* kind of answer it gives.
Formatters ==
    << [label |-> "Summary",
        cues  |-> {<<"total">>, <<"sum">>, <<"how", "much">>, <<"amount">>}],
       [label |-> "Average spent",
        cues  |-> {<<"average">>, <<"mean">>}],
       [label |-> "Largest transactions",
        cues  |-> {<<"largest">>, <<"biggest">>, <<"most", "expensive">>, <<"highest">>}],
       [label |-> "Smallest transactions",
        cues  |-> {<<"smallest">>, <<"lowest">>}],
       [label |-> "You made",
        cues  |-> {<<"count">>, <<"how", "many">>, <<"number">>}],
       [label |-> "Category breakdown",
        cues  |-> {<<"breakdown">>, <<"category">>, <<"categories">>}] >>

\* What the formatter of that kind returns for the call in progress.
FormatterAnswer(kind) ==
    LET q == LowerAll(query) IN
    CASE kind = "Summary" ->
             _format_total_response(filtered_df, time_period, category, q).value
      [] kind = "Average spent" ->
             _format_average_response(filtered_df, time_period, category).value
      [] kind = "Largest transactions" ->
             _format_largest_response(filtered_df, time_period).value
      [] kind = "Smallest transactions" ->
             _format_smallest_response(filtered_df, time_period).value
      [] kind = "You made" ->
             _format_count_response(filtered_df, time_period, category).value
      [] kind = "Category breakdown" ->
             _format_breakdown_response(filtered_df, time_period).value
      [] OTHER ->
             _format_recent_response(filtered_df, time_period, category).value

\* C19: for a non-empty filtered set one formatter gives the answer, the one
\* of highest priority (total/sum/'how much'/amount > average/mean >
\* largest/biggest/'most expensive'/highest > smallest/lowest >
\* count/'how many'/number > breakdown/category/categories) among those the
\* question has a cue for, and the most-recent-10 fallback when it has none.
C19_OneFormatterByPriority ==
    (Answered /\ filtered_df # <<>>) =>
        LET kind == FirstCued(Formatters, query, "Recent transactions") IN
        /\ answer.kind = kind
        /\ answer = FormatterAnswer(kind)

\* A question with cues of the total and the average groups is answered by
\* the summary.
C19_Witness ==
    /\ Answered /\ filtered_df # <<>>
    /\ Cued(Formatters, query) = {1, 2}
    /\ answer.kind = "Summary"

\* C20: for every question and every normalized table, an empty one and one
\* whose filtered rows have no withdrawals or no amounts included,
\* query_structured_data returns a text answer and never raises.
C20_AlwaysText ==
    /\ pc_query # "raised"
    /\ pc_query = "answered" => answer.kind \in FormatterKinds \cup {"No transactions found"}

\* A breakdown over rows that have no withdrawals.
C20_Witness ==
    /\ Answered /\ filtered_df # <<>>
    /\ SumWithdrawals(filtered_df) = 0
    /\ answer.kind = "Category breakdown"
    /\ \A c \in DOMAIN answer.shares : answer.shares[c].percentage = Quotient(0, 1)

-----------------------------------------------------------------------------
(* Further properties of extract_transactions_from_page (SpecPage) *)

\* C21: a record's description is extended only by continuation lines that
\* lie between its own start line and the next transaction-start line of the
\* page: once a later start line has been read, recorded or skipped for its
\* date, no line changes the earlier record.
C21_ContinuationLocality ==
    [][ \A k \in 1..Len(page_tx) :
          /\ (k < Len(page_tx) \/ start_skipped) =>
                 Len(page_tx') >= k /\ page_tx'[k] = page_tx[k]
          /\ (Len(page_tx') >= k /\ page_tx'[k] # page_tx[k]) => ~StartsWithMonth(line')
      ]_vars

\* C22: only non-blank lines are appended as continuations: a blank line
\* read while a transaction exists leaves every record unchanged, the
\* description of the most recent one included.
C22_BlankLineIgnored ==
    (n_lines > 0 /\ line = <<>> /\ pc_page # "raised") => page_tx = prev_tx

\* The token spells a number: digits, with or without a fraction, a sign or
\* a thousands separator.
NumericToken(tok) == IsNumeric(tok) \/ tok = "1,234.56"

\* The amount of a record, on whichever side it stands.
AmountOf(rec) == IF rec.withdrawal # None THEN rec.withdrawal ELSE rec.deposit

\* C23: on a recorded transaction-start line whose last token is non-numeric
\* that token is discarded before the fields are read, so the balance and the
\* amount are the last and the second-to-last of the remaining tokens; a
\* last token that is numeric is never discarded.
C23_TrailingTagDiscarded ==
    Recorded =>
        LET kept == IF NumericToken(Last(line)) THEN line ELSE Front(line) IN
        /\ Len(kept) >= 2
        /\ NewRecord.balance = kept[Len(kept)]
        /\ AmountOf(NewRecord) = kept[Len(kept) - 1]

-----------------------------------------------------------------------------
(* Further properties of the batch (Spec) *)

\* Rows built by the files of the log whose extraction completed.
RECURSIVE CompletedRows(_)
CompletedRows(log) ==
    IF log = <<>> THEN 0
    ELSE (IF Head(log).ok THEN Head(log).rows ELSE 0) + CompletedRows(Tail(log))

\* C24: at every point of a batch the consolidated table holds only rows of
\* files whose extraction completed; a file that fails part-way contributes
\* no row, the rows of the pages read before the failure included.
C24_NoPartialRows ==
    /\ Len(all_transactions.rows) = CompletedRows(file_log)
    /\ all_transactions.rows = expected

\* A file failed after a page of it had given rows, and the table is empty.
C24_Witness ==
    /\ pc = "next_file" /\ f = 1
    /\ ~file_log[1].ok /\ file_log[1].rows > 0
    /\ all_transactions = [columns |-> FALSE, rows |-> <<>>]

\* C25: process_transactions leaves the table passed to it unchanged, with
\* the columns and cell values it had before the call, and returns the
\* normalized table as a separate result.
C25_ArgumentUnchanged ==
    pc \in {"processed", "process_raised"} => raw_df = all_transactions

-----------------------------------------------------------------------------
(* Further properties of query_structured_data (SpecQuery) *)

\* The two transaction types in the order of their tests, with their cues.
Types ==
    << [label |-> "withdrawal", cues |-> {<<"withdrawal">>, <<"spent">>, <<"paid">>}],
       [label |-> "deposit",    cues |-> {<<"deposit">>, <<"received">>, <<"income">>}] >>

\* C26: at most one type filter applies to a question: with a withdrawal cue
\* only rows with Withdrawals > 0 are used, with a deposit cue and no
\* withdrawal cue only rows with Deposits > 0, with cues of both kinds only
\* the withdrawal filter, and with neither no type filter.
C26_OneTypeFilter ==
    Answered =>
        LET cued   == Cued(Types, query)
            others == SelectSeq(df, LAMBDA r : /\ InPeriod(time_period, r, today)
                                               /\ category = None \/ r.Category = category)
        IN  /\ 1 \in cued =>
                   filtered_df = SelectSeq(others, LAMBDA r : r.Withdrawals.n > 0)
            /\ cued = {2} =>
                   filtered_df = SelectSeq(others, LAMBDA r : r.Deposits.n > 0)
            /\ cued = {} => filtered_df = others

\* A question with cues of both types is answered over the withdrawals: a
\* deposit that passes the other filters is left out.
C26_Witness ==
    /\ Answered
    /\ Cued(Types, query) = {1, 2}
    /\ filtered_df # <<>>
    /\ \A i \in 1..Len(filtered_df) : filtered_df[i].Withdrawals.n > 0
    /\ \E i \in 1..Len(df) :
          /\ df[i].Deposits.n > 0 /\ df[i].Withdrawals.n = 0
          /\ InPeriod(time_period, df[i], today)
          /\ category = None \/ df[i].Category = category

-----------------------------------------------------------------------------
(* Further properties of process_single_pdf (Spec) *)

\* C28: the resolved year is per document: each file starts with the year
\* unresolved, and the year a page is classified with is one a page of the
\* same file shows, never one found in another file.
C28_YearPerDocument ==
    /\ (pc = "pages" /\ page_years = <<>>) => extracted_year = None
    /\ \A j \in 1..Len(page_years) :
          /\ page_years[j] # None =>
                 \E i \in 1..j : page_tokens[i] = page_years[j]
          /\ page_years[j] = None =>
                 \A i \in 1..j : page_tokens[i] = None

\* The first file resolved 2024 and was added to the table; a page of the
\* second file that shows no year is classified with no year.
C28_Witness ==
    /\ pc = "pages" /\ f = 1
    /\ file_log[1].ok
    /\ \E i \in 1..Len(expected) : expected[i].Date = Cell("Mar 02, 2024")
    /\ page_years = <<None>> /\ page_tokens = <<None>>
    /\ transactions # <<>>

\* The lines of a page from its first recorded transaction on.
RECURSIVE FromFirstRecord(_, _)
FromFirstRecord(lines, year) ==
    IF lines = <<>> THEN <<>>
    ELSE LET r == ProcessLine(<<>>, Head(lines), year) IN
         IF r.exc = "" /\ r.tx = <<>> THEN FromFirstRecord(Tail(lines), year)
         ELSE lines

\* C29: records are page-local for continuation purposes: when a page has
\* been read, the records of the pages before are as they were, and the
\* records added are those of the page from its first recorded transaction
\* on; the lines before it are discarded.
C29_PageLocalRecords ==
    (pc = "pages" /\ page_lines # <<>>) =>
        LET year == page_years[Len(page_years)]
            kept == FromFirstRecord(page_lines, year)
        IN  /\ Len(transactions) >= Len(tx_before)
            /\ SubSeq(transactions, 1, Len(tx_before)) = tx_before
            /\ SubSeq(transactions, Len(tx_before) + 1, Len(transactions))
                   = extract_transactions_from_page(kept, year).tx

\* The second page of a file begins with a line that starts no transaction:
\* the record of the first page is as the first page gave it.
C29_Witness ==
    /\ pc = "pages" /\ Len(page_years) = 2
    /\ page_lines # <<>> /\ ~StartsWithMonth(page_lines[1])
    /\ Len(transactions) = 2 /\ tx_before = <<transactions[1]>>

-----------------------------------------------------------------------------
(* Properties of BankStatementRAG._initialize (SpecRag) *)

\* C30: whenever the initialisation re-extracts the ledger from the PDFs
\* (forced refresh, or the saved ledger missing or empty), the vector store
\* in use was built from that ledger and not loaded from a saved index; an
\* initialisation that ends with an agent set up has a vector store built
\* from the ledger in use.
C30_VectorsFromLedgerInUse ==
    /\ (pc_rag \in {"have_vectors", "ready"} /\ needs_extraction) =>
           needs_vectors /\ vectorstore = transactions_df
    /\ agent => vectorstore = transactions_df

====
